---- MODULE Spec2Model ----
(***************************************************************************)
(* MelodyNet (src/models/mnet.py) and the playback recurrence play_song    *)
(* (src/utils/play.py) of loganbrenningmeyer/harmonizer.                   *)
(*                                                                         *)
(* Real numbers are exact rationals <<n, d>> with d > 0; the two results   *)
(* of a floating-point division by zero are NaN == <<0, 0>> (0/0) and      *)
(* Inf == <<1, 0>> (x/0, x # 0).  Python strings are sequences of          *)
(* characters, so that slices (note[:2], chord_note[:-1]) and indexing     *)
(* (note[2]) are computed.  Python's 0-based tensors are functions on      *)
(* 0..n-1; row vectors of shape (1, n) are sequences of length n, so that  *)
(* torch.cat is \o and a width is Len.                                     *)
(***************************************************************************)
EXTENDS Integers, Sequences, FiniteSets, TLC

VARIABLES
    CHORD_NOTES,     \* utils.data.mappings.CHORD_NOTES: chord label -> list of note strings
    args,            \* the arguments MelodyNet.__init__ is called with
    init_weight,     \* the value nn.Linear's random initialisation gives the learnable entries
    model_pc,        \* "new", "built" (constructor returned), "raised" (constructor raised)
    model_err,       \* the exception the constructor raised, or None
    hnn,             \* the module's attributes after construction, or None
    chords_to_notes, \* __init__'s local membership matrix as it is before normalisation
    train_steps,     \* optimizer steps taken so far
    play_pc,         \* "idle", "loop", "done", "raised"
    play_err,        \* the exception play_song raised, or None
    song_notes,      \* the song's melody symbols
    timestep,        \* loop index of play_song
    state_units,     \* the recurrent state, shape (1, output_size)
    inputs,          \* the vector last handed to the network
    played           \* the (note_str, chord_str) pairs handed to play_comp, in order

vars == <<CHORD_NOTES, args, init_weight, model_pc, model_err, hnn, chords_to_notes,
          train_steps, play_pc, play_err, song_notes, timestep, state_units, inputs,
          played>>

\* None where a string (a sequence of characters) is expected
None == <<"None">>

\* the result of dict.get: <<value>>, or <<>> for Python's None
Some(v) == <<v>>
Nothing == <<>>

\* the value of hnn before a module exists
NoModule == [class |-> "None"]

(***************************************************************************)
(* Bounds of the model.                                                    *)
(***************************************************************************)
MaxTrainSteps == 1
MaxSongLen == 2
ExpBase == 2     \* rational stand-in for e in softmax's exp

(***************************************************************************)
(* Rational arithmetic.                                                    *)
(***************************************************************************)
NaN == <<0, 0>>
Inf == <<1, 0>>

Abs(x) == IF x < 0 THEN -x ELSE x

RECURSIVE GCD(_, _)
GCD(a, b) == IF b = 0 THEN a ELSE GCD(b, a % b)

R(n) == <<n, 1>>

IsNaN(q) == q = NaN

IsNum(q) == q[2] > 0

RNorm(n, d) ==
    IF d = 0 THEN (IF n = 0 THEN NaN ELSE Inf)
    ELSE LET g == GCD(Abs(n), Abs(d))
             s == IF d < 0 THEN -1 ELSE 1
         IN <<(s * n) \div g, (s * d) \div g>>

RAdd(p, q) ==
    IF ~IsNum(p) \/ ~IsNum(q) THEN NaN
    ELSE LET g == GCD(p[2], q[2])
         IN RNorm(p[1] * (q[2] \div g) + q[1] * (p[2] \div g), (p[2] \div g) * q[2])

RMul(p, q) ==
    IF ~IsNum(p) \/ ~IsNum(q) THEN NaN
    ELSE LET g1 == GCD(Abs(p[1]), q[2])
             g2 == GCD(Abs(q[1]), p[2])
             h1 == IF g1 = 0 THEN 1 ELSE g1
             h2 == IF g2 = 0 THEN 1 ELSE g2
         IN RNorm((p[1] \div h1) * (q[1] \div h2), (p[2] \div h2) * (q[2] \div h1))

RDiv(p, q) ==
    IF ~IsNum(p) \/ ~IsNum(q) THEN NaN
    ELSE IF q[1] = 0 THEN (IF p[1] = 0 THEN NaN ELSE Inf)
    ELSE IF q[1] < 0 THEN RMul(p, <<-q[2], -q[1]>>)
    ELSE RMul(p, <<q[2], q[1]>>)

RLess(p, q) == p[1] * q[2] < q[1] * p[2]

\* sum of f[lo..hi], by halves
RECURSIVE RSumRange(_, _, _)
RSumRange(f, lo, hi) ==
    IF hi < lo THEN R(0)
    ELSE IF lo = hi THEN f[lo]
    ELSE LET mid == (lo + hi) \div 2
         IN RAdd(RSumRange(f, lo, mid), RSumRange(f, mid + 1, hi))

\* sum of the function f over 0..n-1
RSum(f, n) == RSumRange(f, 0, n - 1)

RSumSeq(s) == RSumRange(s, 1, Len(s))

(***************************************************************************)
(* MelodyNet.__init__: sizes.                                              *)
(***************************************************************************)
state_size == 145
chord_size == 84
meter_size == 16
input_size == 245
hidden2_size == 84
output_size == 145

\* nn.Linear(in_features, out_features): weight of shape (out, in), every entry w
Linear(in_features, out_features, w, bias) ==
    [in_features |-> in_features,
     out_features |-> out_features,
     weight |-> [o \in 0..(out_features - 1) |-> [i \in 0..(in_features - 1) |-> R(w)]],
     has_bias |-> bias,
     bias |-> [o \in 0..(out_features - 1) |-> IF bias THEN R(w) ELSE R(0)],
     requires_grad |-> TRUE]

\* tensor.fill_diagonal_(v)
fill_diagonal_OffBug(weight, v) ==
    [o \in DOMAIN weight |-> [i \in DOMAIN weight[o] |-> IF i = o + 1 THEN R(v) ELSE weight[o][i]]]

fill_diagonal_(weight, v) ==
    [o \in DOMAIN weight |-> [i \in DOMAIN weight[o] |-> IF i = o THEN R(v) ELSE weight[o][i]]]

(***************************************************************************)
(* MelodyNet.__init__: the chord and note vocabularies.                    *)
(***************************************************************************)
chromatic_notes ==
    << <<"A">>, <<"A", "#">>, <<"B">>, <<"C">>, <<"C", "#">>, <<"D">>, <<"D", "#">>,
       <<"E">>, <<"F">>, <<"F", "#">>, <<"G">>, <<"G", "#">> >>

chord_types == <<"maj", "min", "dim", "maj7", "min7", "dom7", "min7b5">>

\* [note + chord_type for note in chromatic_notes for chord_type in chord_types]
hidden2_chords ==
    [j \in 0..(Len(chromatic_notes) * Len(chord_types) - 1) |->
        chromatic_notes[(j \div Len(chord_types)) + 1]
            \o <<chord_types[(j % Len(chord_types)) + 1]>>]

\* ['rest'] + [note for note in chromatic_notes for octave in range(6) for lifespan in range(2)]
output_notes ==
    [i \in 0..(Len(chromatic_notes) * 6 * 2) |->
        IF i = 0 THEN <<"r", "e", "s", "t">>
        ELSE chromatic_notes[((i - 1) \div (6 * 2)) + 1]]

\* chord_note[:-1]
DropLast(s) == IF Len(s) = 0 THEN s ELSE SubSeq(s, 1, Len(s) - 1)

\* CHORD_NOTES.get(chord)
DictGetOrEmpty(d, k) == IF k \in DOMAIN d THEN Some(d[k]) ELSE Some(<<>>)

DictGet(d, k) == IF k \in DOMAIN d THEN Some(d[k]) ELSE Nothing

\* any(note == chord_note for chord_note in chord_notes)
NoteInChordExact(note, chord_notes) ==
    \E n \in 1..Len(chord_notes) : note = chord_notes[n]

\* any(note == chord_note[:-1] for chord_note in chord_notes)
NoteInChord(note, chord_notes) ==
    \E n \in 1..Len(chord_notes) : note = DropLast(chord_notes[n])

\* lines 136-148: zeros, the rest row of ones, then the membership loop
ChordsToNotes(table) ==
    [i \in 0..(output_size - 1) |-> [j \in 0..(hidden2_size - 1) |->
        IF i = 0 THEN 1
        ELSE IF NoteInChord(output_notes[i], DictGet(table, hidden2_chords[j])[1]) THEN 1
        ELSE 0]]

\* integer sum of f[lo..hi], by halves
RECURSIVE IntSumRange(_, _, _)
IntSumRange(f, lo, hi) ==
    IF hi < lo THEN 0
    ELSE IF lo = hi THEN f[lo]
    ELSE LET mid == (lo + hi) \div 2
         IN IntSumRange(f, lo, mid) + IntSumRange(f, mid + 1, hi)

\* chords_to_notes.sum(dim=1)[i]
RowSum(c2n, i) == IntSumRange(c2n[i], 0, hidden2_size - 1)

\* chords_to_notes.sum(dim=0)[j]
ColSum(c2n, j) == IntSumRange([i \in 0..(output_size - 1) |-> c2n[i][j]], 0, output_size - 1)

\* (chords_to_notes / chords_to_notes.sum(dim=0, keepdim=True)) * melody_weights
FixedOutputWeightsDim0(c2n, melody_weights) ==
    LET total == [j \in 0..(hidden2_size - 1) |-> ColSum(c2n, j)]
    IN [i \in DOMAIN c2n |-> [j \in DOMAIN c2n[i] |->
           RMul(RDiv(R(c2n[i][j]), R(total[j])), R(melody_weights))]]

\* (chords_to_notes / chords_to_notes.sum(dim=1, keepdim=True)) * melody_weights
FixedOutputWeights(c2n, melody_weights) ==
    [i \in DOMAIN c2n |->
        LET total == RowSum(c2n, i)
        IN [j \in DOMAIN c2n[i] |-> RMul(RDiv(R(c2n[i][j]), R(total)), R(melody_weights))]]

\* the module as __init__ leaves it (lines 69-157), c2n being the local chords_to_notes
MelodyNet(a, c2n, w) ==
    LET h2c == Linear(chord_size, hidden2_size, w, FALSE)
        out == Linear(hidden2_size, output_size, w, FALSE)
    IN [state_size |-> state_size,
        chord_size |-> chord_size,
        meter_size |-> meter_size,
        input_size |-> input_size,
        hidden1_size |-> a.hidden1_size,
        hidden2_size |-> hidden2_size,
        output_size |-> output_size,
        lr |-> a.lr,
        weight_decay |-> a.weight_decay,
        chord_weights |-> a.chord_weights,
        melody_weights |-> a.melody_weights,
        state_units_decay |-> a.state_units_decay,
        hidden1 |-> Linear(input_size, a.hidden1_size, w, TRUE),
        hidden2_from_hidden1 |-> Linear(a.hidden1_size, hidden2_size, w, TRUE),
        hidden2_from_chord |->
            [h2c EXCEPT !.weight = fill_diagonal_(h2c.weight, a.chord_weights)],
        output |->
            [out EXCEPT !.weight = FixedOutputWeights(c2n, a.melody_weights),
                        !.requires_grad = FALSE]]

(***************************************************************************)
(* utils.data.mappings: the tables the two files import.                   *)
(***************************************************************************)
ChordLabels == {hidden2_chords[j] : j \in DOMAIN hidden2_chords}

\* semitone offsets of each chord quality's notes from the root
ChordIntervals ==
    [t \in {chord_types[k] : k \in DOMAIN chord_types} |->
        CASE t = "maj" -> <<0, 4, 7>>
          [] t = "min" -> <<0, 3, 7>>
          [] t = "dim" -> <<0, 3, 6>>
          [] t = "maj7" -> <<0, 4, 7, 11>>
          [] t = "min7" -> <<0, 3, 7, 10>>
          [] t = "dom7" -> <<0, 4, 7, 10>>
          [] t = "min7b5" -> <<0, 3, 6, 10>>]

\* the complete table: every chord label -> its notes, each a pitch name and an octave digit
StdChordNotes ==
    [c \in ChordLabels |->
        LET j == CHOOSE x \in DOMAIN hidden2_chords : hidden2_chords[x] = c
            root == j \div Len(chord_types)
            iv == ChordIntervals[chord_types[(j % Len(chord_types)) + 1]]
        IN [n \in 1..Len(iv) |->
               chromatic_notes[((root + iv[n]) % Len(chromatic_notes)) + 1] \o <<"4">>]]

\* the table without the entry of one chord label
WithoutChord(table, c) == [x \in (DOMAIN table) \ {c} |-> table[x]]

\* the table with one pitch name struck from every chord
WithoutPitch(table, pitch) ==
    LET Keep(n) == DropLast(n) # pitch
    IN [x \in DOMAIN table |-> SelectSeq(table[x], Keep)]

ChordTables ==
    {StdChordNotes,
     WithoutChord(StdChordNotes, hidden2_chords[0]),
     WithoutChord(StdChordNotes, hidden2_chords[hidden2_size - 1]),
     WithoutPitch(StdChordNotes, <<"C">>)}

\* two-character pitch codes (note digit, accidental digit) in chromatic order
NoteEncs ==
    << <<"1", "0">>, <<"1", "1">>, <<"2", "0">>, <<"3", "0">>, <<"3", "1">>, <<"4", "0">>,
       <<"4", "1">>, <<"5", "0">>, <<"6", "0">>, <<"6", "1">>, <<"7", "0">>, <<"7", "1">> >>

NOTE_ENC_TO_IDX_REF ==
    [e \in {NoteEncs[k] : k \in DOMAIN NoteEncs} |->
        (CHOOSE k \in DOMAIN NoteEncs : NoteEncs[k] = e) - 1]

NOTE_ENC_TO_NOTE_STR_REF ==
    [e \in {NoteEncs[k] : k \in DOMAIN NoteEncs} |->
        chromatic_notes[CHOOSE k \in DOMAIN NoteEncs : NoteEncs[k] = e]]

IDX_TO_CHORD_STR_REF == [j \in 0..(chord_size - 1) |-> hidden2_chords[j]]

Octaves == {"2", "3", "4", "5", "6", "7"}

\* the keys of NOTE_FREQUENCIES: a pitch name followed by an octave digit
NoteFrequencyKeys ==
    {chromatic_notes[k] \o <<o>> : k \in DOMAIN chromatic_notes, o \in Octaves}

(***************************************************************************)
(* MelodyNet.forward.                                                      *)
(***************************************************************************)
Min(a, b) == IF a < b THEN a ELSE b

\* X[:, lo:hi]
Slice(X, lo, hi) == SubSeq(X, lo + 1, Min(hi, Len(X)))

relu(q) == IF q[1] < 0 THEN R(0) ELSE q

Raise(e) == [raised |-> TRUE, err |-> e]

Return(v) == [raised |-> FALSE, value |-> v]

\* F.linear(x, weight, bias) on a row vector x; a width other than in_features raises
LinearApply(layer, x) ==
    IF Len(x) # layer.in_features THEN Raise("RuntimeError")
    ELSE Return([o \in 1..layer.out_features |->
             LET dot == RSum([i \in 0..(layer.in_features - 1) |->
                                 RMul(layer.weight[o - 1][i], x[i + 1])], layer.in_features)
             IN IF layer.has_bias THEN RAdd(dot, layer.bias[o - 1]) ELSE dot])

Forward(net, X) ==
    LET a1 == LinearApply(net.hidden1, X)
    IN IF a1.raised THEN a1
       ELSE LET h1 == [k \in DOMAIN a1.value |-> relu(a1.value[k])]
                h2_from_h1 == LinearApply(net.hidden2_from_hidden1, h1)
                chord == Slice(X, net.state_size, net.state_size + net.chord_size)
                h2_from_chord == LinearApply(net.hidden2_from_chord, chord)
            IN IF h2_from_h1.raised THEN h2_from_h1
               ELSE IF h2_from_chord.raised THEN h2_from_chord
               ELSE LET h2 == [k \in DOMAIN h2_from_h1.value |->
                                  relu(RAdd(h2_from_h1.value[k], h2_from_chord.value[k]))]
                    IN LinearApply(net.output, h2)

(***************************************************************************)
(* play_song: the body of the loop over timesteps.                         *)
(***************************************************************************)
zeros(n) == [k \in 1..n |-> R(0)]

\* torch.eye(12)[idx]
eye12(idx) == [k \in 1..12 |-> IF k = idx + 1 THEN R(1) ELSE R(0)]

\* F.one_hot(torch.arange(2))[timestep % 2]
MeterUnits(t) == [k \in 1..2 |-> IF k = (t % 2) + 1 THEN R(1) ELSE R(0)]

\* lines 134-140: the melody symbol's pitch encoding
InputT(note) ==
    LET note_idx == DictGet(NOTE_ENC_TO_IDX_REF, Slice(note, 0, 2))
    IN IF note_idx # Nothing THEN eye12(note_idx[1]) ELSE zeros(12)

\* line 147: torch.cat([state_units, input_t, meter_units], dim=1)
BuildInputs(state, note, t) == state \o InputT(note) \o MeterUnits(t)

\* exp of an integer-valued logit
Exp(q) ==
    IF q[1] >= 0 THEN R(ExpBase ^ (q[1] \div q[2]))
    ELSE <<1, ExpBase ^ ((-q[1]) \div q[2])>>

\* F.softmax(output, dim=1)
Softmax(output) ==
    LET e == [k \in DOMAIN output |-> Exp(output[k])]
        total == RSumSeq(e)
    IN [k \in DOMAIN output |-> RDiv(e[k], total)]

\* line 153 alone: the update without the renormalisation of line 154
StateUpdateUnnormalised(output, state, decay) ==
    LET p == Softmax(output)
    IN [k \in DOMAIN state |-> RAdd(p[k], RMul(decay, state[k]))]

\* lines 153-154
StateUpdate(output, state, decay) ==
    LET p == Softmax(output)
        blended == [k \in DOMAIN state |-> RAdd(p[k], RMul(decay, state[k]))]
        total == RSumSeq(blended)
    IN [k \in DOMAIN state |-> RDiv(blended[k], total)]

\* lines 157-160: note[2] raises IndexError on a symbol shorter than three characters
NoteStr(note) ==
    LET name == DictGet(NOTE_ENC_TO_NOTE_STR_REF, Slice(note, 0, 2))
    IN IF name # Nothing
       THEN (IF Len(note) < 3 THEN Raise("IndexError") ELSE Return(name[1] \o <<note[3]>>))
       ELSE Return(None)

\* IDX_TO_CHORD_STR_REF.get(chord_idx)
ChordStr(chord_idx) ==
    LET c == DictGet(IDX_TO_CHORD_STR_REF, chord_idx)
    IN IF c = Nothing THEN None ELSE c[1]

\* position in lo..hi of the first largest value of f
RECURSIVE ArgmaxRange(_, _, _)
ArgmaxRange(f, lo, hi) ==
    IF lo = hi THEN lo
    ELSE LET mid == (lo + hi) \div 2
             left == ArgmaxRange(f, lo, mid)
             right == ArgmaxRange(f, mid + 1, hi)
         IN IF RLess(f[left], f[right]) THEN right ELSE left

\* np.argmax: the first position of the largest value, 0-based
Argmax(output) == ArgmaxRange(output, 1, Len(output)) - 1

\* play_chord, as far as it can raise: CHORD_NOTES[chord] and NOTE_FREQUENCIES[note]
play_chord(chord, table) ==
    IF chord \notin DOMAIN table THEN Raise("KeyError")
    ELSE IF \E n \in DOMAIN table[chord] : table[chord][n] \notin NoteFrequencyKeys
    THEN Raise("KeyError")
    ELSE Return(None)

\* play_note, as far as it can raise: NOTE_FREQUENCIES[note]
play_note(note) ==
    IF note \notin NoteFrequencyKeys THEN Raise("KeyError") ELSE Return(None)

\* play_comp([note_str], chord_str)
play_comp(notes, chord, table) ==
    LET c == play_chord(chord, table)
    IN IF c.raised THEN c
       ELSE IF notes[1] # None THEN play_note(notes[1])
       ELSE Return(None)

(***************************************************************************)
(* Inputs.                                                                 *)
(***************************************************************************)
ArgSets ==
    [hidden1_size : {1}, lr : {1}, weight_decay : {1}, chord_weights : {1, 5},
     melody_weights : {1, 10}, state_units_decay : {<<1, 2>>}]

InitWeights == {0, 1}

\* the gradient an optimizer step sees in every entry of a trainable tensor
Grads == {1}

Decays == {<<0, 1>>, <<1, 2>>}

\* melody symbols: note digit, accidental digit, octave digit, lifespan digit
Symbols ==
    { <<"0", "0", "0", "0">>,     \* rest: not a pitch code
      <<"4", "0", "4", "0">>,     \* D, octave 4
      <<>>,                       \* empty string
      <<"4", "0">> }              \* a pitch code with no octave character

RECURSIVE SeqsUpTo(_, _)
SeqsUpTo(S, n) ==
    IF n = 0 THEN {<<>>}
    ELSE LET shorter == SeqsUpTo(S, n - 1)
         IN shorter \cup {Append(s, x) : s \in {t \in shorter : Len(t) = n - 1}, x \in S}

Songs == SeqsUpTo(Symbols, MaxSongLen)

OneHotLogits(idx) == [k \in 1..output_size |-> IF k = idx + 1 THEN R(1) ELSE R(0)]

\* logit vectors a forward pass may return
LogitCases ==
    {zeros(output_size), OneHotLogits(chord_size - 1), OneHotLogits(chord_size),
     OneHotLogits(output_size - 1)}

(***************************************************************************)
(* Actions.                                                                *)
(***************************************************************************)
Init ==
    /\ CHORD_NOTES \in ChordTables
    /\ args \in ArgSets
    /\ init_weight \in InitWeights
    /\ model_pc = "new"
    /\ model_err = "None"
    /\ hnn = NoModule
    /\ chords_to_notes = <<>>
    /\ train_steps = 0
    /\ play_pc = "idle"
    /\ play_err = "None"
    /\ song_notes = <<>>
    /\ timestep = 0
    /\ state_units = <<>>
    /\ inputs = <<>>
    /\ played = <<>>

\* MelodyNet(...): iterating over CHORD_NOTES.get(chord) = None raises TypeError (line 147)
Construct ==
    /\ model_pc = "new"
    /\ IF \E j \in DOMAIN hidden2_chords : DictGet(CHORD_NOTES, hidden2_chords[j]) = Nothing
       THEN /\ model_pc' = "raised"
            /\ model_err' = "TypeError"
            /\ UNCHANGED <<hnn, chords_to_notes>>
       ELSE /\ model_pc' = "built"
            /\ chords_to_notes' = ChordsToNotes(CHORD_NOTES)
            /\ hnn' = MelodyNet(args, chords_to_notes', init_weight)
            /\ UNCHANGED model_err
    /\ UNCHANGED <<CHORD_NOTES, args, init_weight, train_steps, play_pc, play_err,
                   song_notes, timestep, state_units, inputs, played>>

\* one SGD update of a parameter: p - lr * (grad + weight_decay * p)
SGD(p, g, lr, weight_decay) ==
    RAdd(p, RMul(R(-lr), RAdd(R(g), RMul(R(weight_decay), p))))

StepLayer(layer, g, lr, weight_decay) ==
    IF ~layer.requires_grad THEN layer
    ELSE [layer EXCEPT
             !.weight = [o \in DOMAIN layer.weight |-> [i \in DOMAIN layer.weight[o] |->
                            SGD(layer.weight[o][i], g, lr, weight_decay)]],
             !.bias = [o \in DOMAIN layer.bias |->
                          IF layer.has_bias THEN SGD(layer.bias[o], g, lr, weight_decay)
                          ELSE layer.bias[o]]]

\* optimizer.step() over the module's parameters with requires_grad
OptimizerStep ==
    /\ model_pc = "built"
    /\ play_pc = "idle"
    /\ train_steps < MaxTrainSteps
    /\ \E g \in Grads :
        hnn' = [hnn EXCEPT
                   !.hidden1 = StepLayer(@, g, hnn.lr, hnn.weight_decay),
                   !.hidden2_from_hidden1 = StepLayer(@, g, hnn.lr, hnn.weight_decay),
                   !.hidden2_from_chord = StepLayer(@, g, hnn.lr, hnn.weight_decay),
                   !.output = StepLayer(@, g, hnn.lr, hnn.weight_decay)]
    /\ train_steps' = train_steps + 1
    /\ UNCHANGED <<CHORD_NOTES, args, init_weight, model_pc, model_err, chords_to_notes,
                   play_pc, play_err, song_notes, timestep, state_units, inputs, played>>

\* play_song up to the loop (lines 111-130)
StartPlay ==
    /\ model_pc \in {"built", "loaded"}
    /\ play_pc = "idle"
    /\ \E song \in Songs :
        /\ song_notes' = song
        /\ play_pc' = IF Len(song) = 0 THEN "done" ELSE "loop"
    /\ timestep' = 0
    /\ state_units' = zeros(hnn.output_size)
    /\ UNCHANGED <<CHORD_NOTES, args, init_weight, model_pc, model_err, hnn,
                   chords_to_notes, train_steps, play_err, inputs, played>>

\* one pass of the loop body (lines 132-167), output being what hnn(inputs) does
Timestep(output) ==
    LET note == song_notes[timestep + 1]
        new_state == StateUpdate(output.value, state_units, hnn.state_units_decay)
        note_str == NoteStr(note)
        chord_str == ChordStr(Argmax(output.value))
        sound == play_comp(<<note_str.value>>, chord_str, CHORD_NOTES)
    IN /\ play_pc = "loop"
       /\ inputs' = BuildInputs(state_units, note, timestep)
       /\ IF output.raised
          THEN /\ play_pc' = "raised"
               /\ play_err' = output.err
               /\ UNCHANGED <<state_units, played, timestep>>
          ELSE IF note_str.raised
          THEN /\ play_pc' = "raised"
               /\ play_err' = note_str.err
               /\ state_units' = new_state
               /\ UNCHANGED <<played, timestep>>
          ELSE /\ state_units' = new_state
               /\ played' = Append(played, <<note_str.value, chord_str>>)
               /\ IF sound.raised
                  THEN /\ play_pc' = "raised"
                       /\ play_err' = sound.err
                       /\ UNCHANGED timestep
                  ELSE /\ timestep' = timestep + 1
                       /\ play_pc' = IF timestep + 1 = Len(song_notes) THEN "done" ELSE "loop"
                       /\ UNCHANGED play_err
       /\ UNCHANGED <<CHORD_NOTES, args, init_weight, model_pc, model_err, hnn,
                      chords_to_notes, train_steps, song_notes>>

\* the loop body with the module MelodyNet.__init__ built
PlayTimestep ==
    /\ model_pc = "built"
    /\ play_pc = "loop"
    /\ Timestep(Forward(hnn, BuildInputs(state_units, song_notes[timestep + 1], timestep)))

Next == Construct \/ OptimizerStep \/ StartPlay \/ PlayTimestep

Spec == Init /\ [][Next]_vars

(***************************************************************************)
(* The recurrence on its own: play_song with a loaded module whose forward *)
(* pass returns, its logits drawn from LogitCases.                         *)
(***************************************************************************)
InitDriver ==
    /\ CHORD_NOTES = StdChordNotes
    /\ args = NoModule
    /\ init_weight = 0
    /\ model_pc = "loaded"
    /\ model_err = "None"
    /\ hnn \in [output_size : {output_size}, state_units_decay : Decays]
    /\ chords_to_notes = <<>>
    /\ train_steps = 0
    /\ play_pc = "idle"
    /\ play_err = "None"
    /\ song_notes = <<>>
    /\ timestep = 0
    /\ state_units = <<>>
    /\ inputs = <<>>
    /\ played = <<>>

DriverTimestep ==
    /\ model_pc = "loaded"
    /\ play_pc = "loop"
    /\ \E logits \in LogitCases : Timestep(Return(logits))

NextDriver == StartPlay \/ DriverTimestep

SpecDriver == InitDriver /\ [][NextDriver]_vars

(***************************************************************************)
(* Properties.                                                             *)
(***************************************************************************)
\* the state has been updated at least once in this run of play_song
Updated == timestep > 0 \/ (play_pc = "raised" /\ play_err # "RuntimeError")

\* the symbol the loop is at
CurrentNote == song_notes[timestep + 1]

Digits == {"0", "1", "2", "3", "4", "5", "6", "7", "8", "9"}

IsLetter(c) == c \notin Digits

\* the pitch name of a note string: its characters other than the octave digit
PitchName(n) == SelectSeq(n, IsLetter)

\* the pitch name of melody row i >= 1: twelve rows (6 octaves, 2 lifespans) per pitch
RowPitch(i) == chromatic_notes[((i - 1) \div 12) + 1]

HasAllChords(table) == \A c \in ChordLabels : c \in DOMAIN table

EveryPitchUsed(table) ==
    \A k \in DOMAIN chromatic_notes :
        \E c \in DOMAIN table : \E n \in DOMAIN table[c] : PitchName(table[c][n]) = chromatic_notes[k]

WellFormed(table) == HasAllChords(table) /\ EveryPitchUsed(table)

JustBuilt == model_pc = "built" /\ train_steps = 0 /\ play_pc = "idle"

\* C1: every vector handed to the forward pass is 245 wide, laid out as state
\* (0..144), chord slice (145..228: the 12-wide pitch encoding, then zeros) and
\* meter slice (229..244: the 2-wide meter encoding, then zeros), and the forward
\* pass never fails on a width mismatch.
C1_InputIsPadded ==
    inputs # <<>> =>
        /\ Len(inputs) = input_size
        /\ \A p \in (state_size + 12)..(state_size + chord_size - 1) : inputs[p + 1] = R(0)
        /\ \A p \in (state_size + chord_size + 2)..(input_size - 1) : inputs[p + 1] = R(0)
        /\ play_err # "RuntimeError"

\* C2: a run over a song of length n makes one emission per timestep, in order
\* (t emissions after t timesteps, n when the loop is over), and the chord label
\* of every emission is one of the 84 chord labels, never None.
C2_OneChordPerTimestep ==
    /\ \A k \in DOMAIN played : played[k][2] \in ChordLabels
    /\ play_pc = "loop" => Len(played) = timestep
    /\ play_pc = "done" => Len(played) = Len(song_notes)

\* C3 as stated: right after construction the chord-identity matrix is exactly
\* diagonal, chord_weights on the diagonal and 0 everywhere else.
C3_ExactlyDiagonal ==
    JustBuilt =>
        \A o \in 0..(hidden2_size - 1) : \A i \in 0..(chord_size - 1) :
            hnn.hidden2_from_chord.weight[o][i]
                = IF i = o THEN R(hnn.chord_weights) ELSE R(0)

\* C3 amended: right after construction every diagonal entry of the chord-identity
\* matrix equals chord_weights, and every off-diagonal entry still holds the value
\* the layer's initialisation gave it (not necessarily 0).
C3_DiagonalSet ==
    JustBuilt =>
        \A o \in 0..(hidden2_size - 1) : \A i \in 0..(chord_size - 1) :
            hnn.hidden2_from_chord.weight[o][i]
                = IF i = o THEN R(args.chord_weights) ELSE R(init_weight)

C3_Witness ==
    /\ JustBuilt
    /\ init_weight # 0
    /\ args.chord_weights # init_weight
    /\ hnn.hidden2_from_chord.weight[hidden2_size - 1][chord_size - 1] = R(args.chord_weights)

\* C4: no optimizer step changes a fixed tensor: after every step the diagonal of
\* the chord-identity matrix still equals chord_weights and the chord-to-melody
\* output matrix is what it was.
C4_FixedTensorsFrozen ==
    [][model_pc = "built" =>
          /\ \A o \in 0..(hidden2_size - 1) :
                hnn'.hidden2_from_chord.weight[o][o] = R(hnn.chord_weights)
          /\ hnn'.output.weight = hnn.output.weight]_vars

\* C5: after every update of a recurrence run the state has no negative component
\* and its components sum to 1.
C5_StateIsDistribution ==
    (play_pc # "idle" /\ Updated) =>
        /\ Len(state_units) = output_size
        /\ \A k \in DOMAIN state_units : IsNum(state_units[k]) /\ state_units[k][1] >= 0
        /\ RSumSeq(state_units) = R(1)

C5_Witness ==
    /\ timestep >= 2
    /\ hnn.state_units_decay # R(0)
    /\ \E k \in DOMAIN state_units : state_units[k] # state_units[1]

\* C6: the loop never raises while decoding a melody symbol of malformed length:
\* the empty string and a pitch code with no octave character are treated as
\* unrecognized and the loop goes on.
C6_MalformedNeverRaises ==
    (play_pc = "raised" /\ play_err # "KeyError" /\ play_err # "RuntimeError") =>
        Len(CurrentNote) >= 3

Members(row) == Cardinality({j \in DOMAIN row : row[j] # R(0)})

\* C8: with a well-formed CHORD_NOTES every row of the output weight sums to
\* melody_weights, each nonzero entry of a row with k members being melody_weights / k.
C8_RowsSumToScale ==
    (JustBuilt /\ WellFormed(CHORD_NOTES)) =>
        \A i \in 0..(output_size - 1) :
            /\ RSum(hnn.output.weight[i], hidden2_size) = R(args.melody_weights)
            /\ \A j \in 0..(hidden2_size - 1) :
                  \/ hnn.output.weight[i][j] = R(0)
                  \/ hnn.output.weight[i][j]
                        = RDiv(R(args.melody_weights), R(Members(hnn.output.weight[i])))

C8_Witness ==
    /\ JustBuilt
    /\ WellFormed(CHORD_NOTES)
    /\ args.melody_weights = 10
    /\ hnn.output.weight[0][0] = <<5, 42>>
    /\ hnn.output.weight[1][0] = <<2, 5>>

\* C9 as stated: with a chord label missing from CHORD_NOTES, construction fails
\* with a ConfigurationError and produces no model.
C9_ConfigurationError ==
    (~HasAllChords(CHORD_NOTES) /\ model_pc # "new") =>
        /\ model_pc = "raised"
        /\ model_err = "ConfigurationError"
        /\ hnn = NoModule

\* C9 amended: with a chord label missing from CHORD_NOTES, construction fails
\* with a TypeError (iterating over the None that CHORD_NOTES.get returns) and
\* produces no model.
C9_TypeError ==
    (~HasAllChords(CHORD_NOTES) /\ model_pc # "new") =>
        /\ model_pc = "raised"
        /\ model_err = "TypeError"
        /\ hnn = NoModule
        /\ chords_to_notes = <<>>

C9_Witness ==
    /\ ~HasAllChords(CHORD_NOTES)
    /\ model_pc = "raised"

\* C10: construction never returns a model when a row of the membership matrix
\* sums to zero: it aborts instead of dividing by the zero row sum.
C10_ZeroRowAborts ==
    model_pc = "built" =>
        \A i \in 0..(output_size - 1) :
            /\ RowSum(chords_to_notes, i) # 0
            /\ \A j \in 0..(hidden2_size - 1) : ~IsNaN(hnn.output.weight[i][j])
====
